---- MODULE Spec2Model ----
(***************************************************************************)
(* Model of the decision pipeline of the sports-betting bot:               *)
(*   src/src/decision_engine.py         AIDecisionEngine                   *)
(*   src/src/budget_decision_engine.py  BudgetDecisionEngine               *)
(*   src/src/openrouter_client.py       OpenRouterClient (inference)       *)
(*   src/src/sports_odds_client.py      SportsOddsClient (odds provider)   *)
(*   src/web/app.py                     the dashboard service's threads    *)
(*                                                                         *)
(* Numbers that are fractions in the program (confidence, expected value,  *)
(* win probability, thresholds) are integers in hundredths here: 60 is     *)
(* 0.6, 100 is 1.0, -5 is -0.05.  Python's None is the string "None" for   *)
(* string-valued fields; an optional numeric argument is a record          *)
(* [passed, value].  A Python dict is a TLA+ record (a function on its     *)
(* keys), so `k in d` is k \in DOMAIN d and d.get(k, v) is Get(d, k, v).   *)
(***************************************************************************)
EXTENDS Integers, Sequences, FiniteSets, TLC

VARIABLES
    engine,            \* which engine object runs: "ai" or "budget"
    min_confidence,    \* self.min_confidence of the engine
    max_events,        \* scan_sport argument
    include_research,  \* scan_sport argument
    callback,          \* "present" or "none": on_decision or self._on_decision_callback
    pc,                \* position of the running call
    odds_data,         \* scan_sport local: the provider's events (their ids)
    idx,               \* scan_sport loop: events of the truncated list already left behind
    decisions,         \* scan_sport local `decisions`; the input list of get_recommendations
    analysed,          \* history: event ids in the order their analysis was started
    raisedEvents,      \* history: ids of the events whose analysis raised
    cbLog,             \* history: callback invocations, in order
    last,              \* history: collaborator outcomes of the most recent analysis
    delayed,           \* history: time.sleep ran since the most recent analysis
    recArg,            \* get_recommendations argument min_confidence
    recs,              \* get_recommendations result
    running,           \* web/app.py bot_state["running"]
    scanner_stop_event,\* web/app.py scanner_stop_event (threading.Event) is set
    cache_lock,        \* web/app.py cache_lock: the set of its holders (at most one)
    wpc,               \* position of each worker of the dashboard service
    wkind,             \* what a worker runs: "scanner", "scan", "analyze", "none"
    wsport,            \* sport_key a worker is scanning or analysing
    widx,              \* a worker's scan_sport loop: events left behind
    wn,                \* a worker's scan_sport loop: length of the truncated list
    sidx,              \* background_scanner: position in enabled_sports
    research_cache,    \* decision_engine._research_cache: its keys
    unlockedWriters,   \* history: per shared object, the workers that wrote it without holding cache_lock
    event_odds,        \* the event handed to summarize_odds / generate_decision
    odds_summary,      \* what summarize_odds returned
    implied,           \* a call of american_to_implied_prob: its argument and result
    kalshi_request,    \* a call of KalshiClient._make_request: position, depth, responses seen
    errors,            \* web/app.py len(bot_state["errors"])
    trades_today,      \* web/app.py trading_stats["trades_today"]
    auto_execute,      \* web/app.py bot_config["auto_execute"]
    auto_trade,        \* web/app.py bot_state["auto_trade"]
    max_daily_trades,  \* web/app.py bot_config["max_daily_trades"]
    min_edge,          \* web/app.py bot_config["min_edge"]
    scanner_threads,   \* web/app.py: number of live background_scanner threads
    cache_decisions,   \* web/app.py dashboard_cache["decisions"]: the entries, numbered as appended
    appended,          \* history: number of entries ever appended to dashboard_cache["decisions"]
    decision_logs,     \* the engine's self.decision_logs
    logs_result        \* a call of get_decision_logs: its argument and result

vars == <<engine, min_confidence, max_events, include_research, callback, pc,
          odds_data, idx, decisions, analysed, raisedEvents, cbLog, last,
          delayed, recArg, recs,
          running, scanner_stop_event, cache_lock, wpc, wkind, wsport, widx,
          wn, sidx, research_cache, unlockedWriters,
          event_odds, odds_summary, implied,
          kalshi_request, errors, trades_today, auto_execute, auto_trade,
          max_daily_trades, min_edge, scanner_threads, cache_decisions,
          appended, decision_logs, logs_result>>

scanVars == <<odds_data, idx, analysed, raisedEvents, cbLog, last, delayed>>
configVars == <<engine, min_confidence, max_events, include_research, callback>>
engineVars == <<configVars, pc, scanVars, decisions, recArg, recs>>
webVars == <<running, scanner_stop_event, cache_lock, wpc, wkind, wsport, widx,
             wn, sidx, research_cache, unlockedWriters>>
oddsVars == <<event_odds, odds_summary, implied>>
botVars == <<errors, trades_today, auto_execute, auto_trade, max_daily_trades,
             scanner_threads>>
cacheVars == <<cache_decisions, appended>>
logVars == <<decision_logs, logs_result>>
auxVars == <<kalshi_request, min_edge, botVars, cacheVars, logVars>>

-----------------------------------------------------------------------------
(* Bounds *)

\* longest events list the odds provider returns, and largest max_events
MaxEvents == 2

\* longest decisions list handed to get_recommendations
MaxDecisions == 2

-----------------------------------------------------------------------------
(* Generic helpers modelling Python built-ins *)

Min(a, b) == IF a <= b THEN a ELSE b
Max(a, b) == IF a >= b THEN a ELSE b

\* dict.get(k, default)
Get(d, k, default) == IF k \in DOMAIN d THEN d[k] ELSE default

\* list[:m], m negative counts from the end
PySliceTo(list, m) ==
    IF m >= 0 THEN SubSeq(list, 1, Min(m, Len(list)))
    ELSE SubSeq(list, 1, Max(Len(list) + m, 0))

\* list[m:], m negative counts from the end
PySliceFrom(list, m) ==
    IF m >= 0 THEN SubSeq(list, Min(m, Len(list)) + 1, Len(list))
    ELSE SubSeq(list, Max(Len(list) + m, 0) + 1, Len(list))

Last(list) == list[Len(list)]

\* the elements of a list
Range(list) == {list[i] : i \in DOMAIN list}

\* all sequences over S of length at most n
SeqsUpTo(S, n) == UNION {[1..k -> S] : k \in 0..n}

-----------------------------------------------------------------------------
(* The inference collaborator: what the HTTP exchange can produce *)

\* keys of the response schema the prompt asks for
RequiredKeys ==
    {"decision", "bet_type", "bet_side", "confidence", "expected_value",
     "win_probability", "reasoning", "key_insights", "risk_factors"}

\* a complete, well-formed recommendation
FullBet ==
    [decision |-> "place_bet", bet_type |-> "moneyline", bet_side |-> "home",
     confidence |-> 80, expected_value |-> 5, win_probability |-> 60,
     reasoning |-> "value on home", key_insights |-> <<"insight">>,
     risk_factors |-> <<"risk">>]

\* a complete, well-formed skip
FullSkip ==
    [decision |-> "skip", bet_type |-> "None", bet_side |-> "None",
     confidence |-> 30, expected_value |-> -5, win_probability |-> 50,
     reasoning |-> "no edge", key_insights |-> <<>>, risk_factors |-> <<>>]

Without(obj, k) == [x \in (DOMAIN obj) \ {k} |-> obj[x]]

\* JSON objects the model may answer with: well-formed ones, ones lacking one
\* required key, ones with out-of-range values, and the empty object
JsonObjects ==
    {FullBet, FullSkip, <<>>}
    \cup {Without(FullBet, k) : k \in RequiredKeys}
    \cup {[FullBet EXCEPT !.confidence = 150],
          [FullBet EXCEPT !.win_probability = -20],
          [FullBet EXCEPT !.decision = "hold"]}

\* messages of requests.exceptions.RequestException (timeout, non-2xx)
RequestErrors == {"Read timed out", "500 Server Error"}

NoBody == <<>>

\* outcomes of the POST made by OpenRouterClient.chat and of the content in it
HttpOutcomes ==
    {[kind |-> "request_exception", msg |-> m, body |-> NoBody] : m \in RequestErrors}
    \cup {[kind |-> k, msg |-> "", body |-> NoBody] :
             k \in {"empty_choices", "invalid_json", "json_array"}}
    \cup {[kind |-> "json_object", msg |-> "", body |-> b] : b \in JsonObjects}

NoHttp == [kind |-> "not_called", msg |-> "", body |-> NoBody]

\* result of a call: a returned value or a raised exception
Return(v) == [raised |-> FALSE, exc |-> "", isdict |-> TRUE, value |-> v]
ReturnList == [raised |-> FALSE, exc |-> "", isdict |-> FALSE, value |-> <<>>]
Raise(msg) == [raised |-> TRUE, exc |-> msg, isdict |-> FALSE, value |-> <<>>]

\* OpenRouterClient.chat: a RequestException becomes {"error": str(e)}
chat(h) ==
    IF h.kind = "request_exception"
    THEN [error |-> h.msg]
    ELSE [choices |-> h]

\* OpenRouterClient.get_json_response
get_json_response(h) ==
    LET response == chat(h) IN
    IF "error" \in DOMAIN response
    THEN Return([error |-> response.error])
    ELSE LET c == response.choices IN
         CASE c.kind = "empty_choices" ->
                  \* response.get("choices", [{}])[0] on an empty list
                  Raise("list index out of range")
           [] c.kind = "invalid_json" ->
                  Return([error |-> "Failed to parse JSON response", raw |-> "text"])
           [] c.kind = "json_array" -> ReturnList
           [] OTHER -> Return(c.body)

\* OpenRouterClient.generate_bet_decision: builds the prompt, delegates
generate_bet_decision(h) == get_json_response(h)

-----------------------------------------------------------------------------
(* BetDecision *)

\* the BetDecision built from the response dict (same code in both engines)
BetDecision(event_id, response) ==
    [event_id        |-> event_id,
     decision        |-> Get(response, "decision", "skip"),
     bet_type        |-> Get(response, "bet_type", "None"),
     bet_side        |-> Get(response, "bet_side", "None"),
     confidence      |-> Get(response, "confidence", 0),
     expected_value  |-> Get(response, "expected_value", 0),
     win_probability |-> Get(response, "win_probability", 0),
     reasoning       |-> Get(response, "reasoning", ""),
     key_insights    |-> Get(response, "key_insights", <<>>),
     risk_factors    |-> Get(response, "risk_factors", <<>>)]

\* outcome of analysing one event: a decision or an exception
Decided(d) == [raised |-> FALSE, exc |-> "", decision |-> d]
Failed(msg) == [raised |-> TRUE, exc |-> msg, decision |-> BetDecision(0, <<>>)]

-----------------------------------------------------------------------------
(* Analysis of one event *)

ResearchOutcomes == {"ok", "failed"}
KalshiOutcomes == {"ok", "failed", "raised"}

\* BudgetDecisionEngine.generate_decision.  The research collaborator's
\* failure is absorbed by get_free_research (a fallback text); the inference
\* call is wrapped in try/except; the BetDecision is built outside it.
generate_decision(event_id, research, h) ==
    LET r == get_json_response(h)
        response ==
            IF r.raised
            THEN Return([decision |-> "skip", reasoning |-> r.exc])
            ELSE IF r.isdict /\ "error" \in DOMAIN r.value
            THEN Return([decision |-> "skip", reasoning |-> "AI analysis failed"])
            ELSE r
    IN  IF ~response.isdict
        THEN Failed("'list' object has no attribute 'get'")
        ELSE Decided(BetDecision(event_id, response.value))

\* AIDecisionEngine.analyze_event.  research_event absorbs the research
\* collaborator's failure; KalshiClient absorbs a RequestException ("failed":
\* None, hence no market and an empty portfolio) but any other exception of
\* the market lookup propagates; so does one of the inference call.
analyze_event(event_id, research, kalshi, h) ==
    IF kalshi = "raised"
    THEN Failed("'NoneType' object has no attribute 'lower'")
    ELSE LET ai_decision == generate_bet_decision(h) IN
         IF ai_decision.raised THEN Failed(ai_decision.exc)
         ELSE IF ~ai_decision.isdict
         THEN Failed("'list' object has no attribute 'get'")
         ELSE Decided(BetDecision(event_id, ai_decision.value))

-----------------------------------------------------------------------------
(* get_recommendations *)

\* the optional argument min_confidence: None, or a number
NoArg == [passed |-> FALSE, value |-> 0]
Arg(v) == [passed |-> TRUE, value |-> v]

\* Python truthiness of the argument: None and 0 are falsy
Truthy(arg) == arg.passed /\ arg.value # 0

\* `min_confidence or self.min_confidence`
MinConf(arg, self_min_confidence) ==
    IF Truthy(arg) THEN arg.value ELSE self_min_confidence

\* the actionable test of both engines' list comprehension
Actionable(d, min_conf) ==
    /\ d.decision = "place_bet"
    /\ d.confidence >= min_conf
    /\ d.expected_value > 0

\* mutant: the comprehension without its expected_value test
AIGetRecommendationsNoValueTest(ds, arg, self_min_confidence) ==
    LET min_conf == MinConf(arg, self_min_confidence)
        Keep(d) == d.decision = "place_bet" /\ d.confidence >= min_conf
    IN  SelectSeq(ds, Keep)

\* AIDecisionEngine.get_recommendations(decisions, min_confidence)
AIGetRecommendations(ds, arg, self_min_confidence) ==
    LET min_conf == MinConf(arg, self_min_confidence)
        Keep(d) == Actionable(d, min_conf)
    IN  SelectSeq(ds, Keep)

\* mutant: the recommendations are returned last first
BudgetGetRecommendationsReversed(ds, self_min_confidence) ==
    LET Keep(d) == Actionable(d, self_min_confidence)
        kept == SelectSeq(ds, Keep)
    IN  [i \in DOMAIN kept |-> kept[Len(kept) + 1 - i]]

\* BudgetDecisionEngine.get_recommendations(decisions)
BudgetGetRecommendations(ds, self_min_confidence) ==
    LET Keep(d) == Actionable(d, self_min_confidence)
    IN  SelectSeq(ds, Keep)

-----------------------------------------------------------------------------
(* The odds provider *)

\* what the GET of SportsOddsClient._make_request produces: a list of
\* events (ids in provider order), or a request failure (None)
ProviderResponses ==
    {[ok |-> TRUE, events |-> [i \in 1..n |-> i]] : n \in 0..MaxEvents}
    \cup {[ok |-> FALSE, events |-> <<>>]}

\* SportsOddsClient.get_odds: `self._make_request(...) or []`
get_odds(resp) == IF resp.ok THEN resp.events ELSE <<>>

-----------------------------------------------------------------------------
(* Variables of the other specifications, at rest *)

\* bot_config["enabled_sports"] as initialised
enabled_sports == <<"americanfootball_nfl", "basketball_nba">>

\* background_scanner calls scan_sport with max_events=5
ScannerMaxEvents == 5

\* largest number of request handler threads at work at once
MaxRequests == 1

\* the workers of the dashboard service: 0 is the background scanner thread,
\* the others are the server's request threads
Workers == 0..MaxRequests
Requests == 1..MaxRequests
IsScanner(w) == w = 0

\* the shared mutable objects the workers write
Objects == {"bot_state", "trading_stats", "decision_logs", "_research_cache",
            "dashboard_cache"}

\* the module's globals after create_app(): the bot is stopped, the scanner
\* thread waits, nobody holds cache_lock, the engine's cache is empty
WebIdle ==
    /\ running = FALSE
    /\ scanner_stop_event = FALSE
    /\ cache_lock = {}
    /\ wpc = [w \in Workers |-> IF IsScanner(w) THEN "wait" ELSE "idle"]
    /\ wkind = [w \in Workers |-> IF IsScanner(w) THEN "scanner" ELSE "none"]
    /\ wsport = [w \in Workers |-> "none"]
    /\ widx = [w \in Workers |-> 0]
    /\ wn = [w \in Workers |-> 0]
    /\ sidx = 0
    /\ research_cache = {}
    /\ unlockedWriters = [o \in Objects |-> {}]

NoEvent == [home_team |-> "", away_team |-> "", bookmakers |-> <<>>]
NoSummary == [called |-> FALSE]
NoImplied == [called |-> FALSE]

\* no event, no summary, no conversion yet
OddsIdle ==
    /\ event_odds = NoEvent
    /\ odds_summary = NoSummary
    /\ implied = NoImplied

NoKalshi == [pc |-> "none", depth |-> 0, responses |-> <<>>, retry_after |-> 0,
             result |-> "none"]
NoLogs == [called |-> FALSE]

\* bot_config["max_daily_trades"] and bot_config["min_edge"] (in hundredths)
\* as initialised
InitialMaxDailyTrades == 10
InitialMinEdge == 3

\* bot_state, bot_config and trading_stats as initialised
ConfigIdle ==
    /\ errors = 0
    /\ trades_today = 0
    /\ auto_execute = FALSE
    /\ auto_trade = FALSE
    /\ max_daily_trades = InitialMaxDailyTrades

\* the loop bookkeeping of web/app.py after create_app(): one scanner thread
BotIdle ==
    /\ ConfigIdle
    /\ scanner_threads = 1

\* dashboard_cache["decisions"] as initialised
CacheIdle ==
    /\ cache_decisions = <<>>
    /\ appended = 0

\* an engine that has logged nothing and was not asked for its logs
LogsIdle ==
    /\ decision_logs = <<>>
    /\ logs_result = NoLogs

AuxIdle ==
    /\ kalshi_request = NoKalshi
    /\ min_edge = InitialMinEdge
    /\ BotIdle
    /\ CacheIdle
    /\ LogsIdle

-----------------------------------------------------------------------------
(* scan_sport *)

NoLast ==
    [event_id |-> 0, research |-> "none", kalshi |-> "none", http |-> NoHttp,
     raised |-> FALSE, exc |-> ""]

\* mutant: the slice keeps one event too many
TruncatedOneMore == PySliceTo(odds_data, max_events + 1)

\* the events the loop iterates: odds_data[:max_events]
Truncated == PySliceTo(odds_data, max_events)

\* mutant: the except clause leaves the loop (break) instead of continuing
AfterAnalysisErrorBreak == "done"

\* where the loop goes when the analysis of an event raised: the except
\* clause logs and continues with the next event
AfterAnalysisError == "loop"

\* mutant: the callback is called without its own try/except and outside the
\* per-event one, so its exception leaves scan_sport
AfterCallbackUnguarded(cb_raised) == IF cb_raised THEN "propagated" ELSE "sleep"

\* where the loop goes after the callback returned or raised: the inner
\* try/except logs a raising callback, then the rate-limit sleep follows
AfterCallback(cb_raised) == "sleep"

\* mutant: the callback is never called
AfterDecisionNoCallback == "sleep"

\* where the loop goes after an analysis returned and its decision was
\* appended: `if cb:` calls the callback, then the rate-limit sleep follows
\* (AIDecisionEngine.scan_sport has no callback)
AfterDecision ==
    IF engine = "budget" /\ callback = "present" THEN "callback" ELSE "sleep"

\* scan_sport up to the loop: fetch the odds, start with no decisions
ScanStart ==
    /\ pc = "idle"
    /\ \E resp \in ProviderResponses : odds_data' = get_odds(resp)
    /\ decisions' = <<>>
    /\ idx' = 0
    /\ delayed' = FALSE
    /\ pc' = "loop"
    /\ UNCHANGED <<configVars, analysed, raisedEvents, cbLog, last, recArg, recs>>
    /\ UNCHANGED <<webVars, oddsVars, auxVars>>

\* one loop iteration's analysis, outcome r for event e
AnalysisStep(e, r, l) ==
    /\ analysed' = Append(analysed, e)
    /\ last' = l
    /\ delayed' = FALSE
    /\ IF r.raised
       THEN /\ raisedEvents' = raisedEvents \cup {e}
            /\ pc' = AfterAnalysisError
            /\ idx' = IF AfterAnalysisError = "loop" THEN idx + 1 ELSE idx
            /\ UNCHANGED decisions
       ELSE /\ decisions' = Append(decisions, r.decision)
            /\ pc' = AfterDecision
            /\ UNCHANGED <<raisedEvents, idx>>
    /\ UNCHANGED <<configVars, odds_data, cbLog, recArg, recs>>
    /\ UNCHANGED <<webVars, oddsVars, auxVars>>

\* BudgetDecisionEngine.scan_sport: generate_decision for the next event
BudgetAnalyse ==
    /\ pc = "loop" /\ engine = "budget" /\ idx < Len(Truncated)
    /\ LET e == Truncated[idx + 1] IN
       \E research \in (IF include_research THEN ResearchOutcomes ELSE {"skipped"}),
          h \in HttpOutcomes :
          LET r == generate_decision(e, research, h) IN
          AnalysisStep(e, r, [event_id |-> e, research |-> research,
                              kalshi |-> "unused", http |-> h,
                              raised |-> r.raised, exc |-> r.exc])

\* AIDecisionEngine.scan_sport: analyze_event for the next event
AIAnalyse ==
    /\ pc = "loop" /\ engine = "ai" /\ idx < Len(Truncated)
    /\ LET e == Truncated[idx + 1] IN
       \E research \in (IF include_research THEN ResearchOutcomes ELSE {"skipped"}),
          kalshi \in KalshiOutcomes,
          h \in HttpOutcomes :
          LET hh == IF kalshi = "raised" THEN NoHttp ELSE h
              r == analyze_event(e, research, kalshi, hh) IN
          AnalysisStep(e, r, [event_id |-> e, research |-> research,
                              kalshi |-> kalshi, http |-> hh,
                              raised |-> r.raised, exc |-> r.exc])

\* BudgetDecisionEngine.scan_sport: callback(decision), which may raise
Callback ==
    /\ pc = "callback"
    /\ \E cb_raised \in BOOLEAN :
          /\ cbLog' = Append(cbLog, [event_id |-> Last(decisions).event_id,
                                     raised |-> cb_raised])
          /\ pc' = AfterCallback(cb_raised)
    /\ UNCHANGED <<configVars, odds_data, idx, decisions, analysed,
                   raisedEvents, last, delayed, recArg, recs>>
    /\ UNCHANGED <<webVars, oddsVars, auxVars>>

\* time.sleep(...) for rate limiting, then the next iteration
Sleep ==
    /\ pc = "sleep"
    /\ delayed' = TRUE
    /\ idx' = idx + 1
    /\ pc' = "loop"
    /\ UNCHANGED <<configVars, odds_data, decisions, analysed, raisedEvents,
                   cbLog, last, recArg, recs>>
    /\ UNCHANGED <<webVars, oddsVars, auxVars>>

\* the loop is exhausted: return decisions
ScanReturn ==
    /\ pc = "loop" /\ idx = Len(Truncated)
    /\ pc' = "done"
    /\ UNCHANGED <<configVars, scanVars, decisions, recArg, recs>>
    /\ UNCHANGED <<webVars, oddsVars, auxVars>>

Init ==
    /\ engine \in {"ai", "budget"}
    /\ min_confidence = 60
    /\ max_events \in -1..MaxEvents
    /\ include_research \in BOOLEAN
    /\ callback \in (IF engine = "budget" THEN {"none", "present"} ELSE {"none"})
    /\ pc = "idle"
    /\ odds_data = <<>>
    /\ idx = 0
    /\ decisions = <<>>
    /\ analysed = <<>>
    /\ raisedEvents = {}
    /\ cbLog = <<>>
    /\ last = NoLast
    /\ delayed = FALSE
    /\ recArg = NoArg
    /\ recs = <<>>
    /\ WebIdle
    /\ OddsIdle
    /\ AuxIdle

Next ==
    \/ ScanStart
    \/ BudgetAnalyse
    \/ AIAnalyse
    \/ Callback
    \/ Sleep
    \/ ScanReturn

Spec == Init /\ [][Next]_vars

-----------------------------------------------------------------------------
(* get_recommendations applied to arbitrary decision lists *)

\* decisions handed to the filter: every combination of the fields it reads
RecDecisionFields ==
    {[decision |-> dec, confidence |-> c, expected_value |-> ev] :
        dec \in {"place_bet", "skip"}, c \in {0, 30, 60}, ev \in {-5, 0, 5}}

RecLists ==
    {[i \in DOMAIN s |->
         BetDecision(i, [decision |-> s[i].decision,
                         confidence |-> s[i].confidence,
                         expected_value |-> s[i].expected_value])] :
        s \in SeqsUpTo(RecDecisionFields, MaxDecisions)}

\* values a caller passes as min_confidence
RecArgs == {NoArg} \cup {Arg(v) : v \in {0, 30, 60}}

InitRec ==
    /\ engine \in {"ai", "budget"}
    /\ min_confidence \in {0, 60}
    /\ max_events = 0
    /\ include_research = FALSE
    /\ callback = "none"
    /\ pc = "rec"
    /\ odds_data = <<>>
    /\ idx = 0
    /\ decisions \in RecLists
    /\ analysed = <<>>
    /\ raisedEvents = {}
    /\ cbLog = <<>>
    /\ last = NoLast
    /\ delayed = FALSE
    /\ recArg = NoArg
    /\ recs = <<>>
    /\ WebIdle
    /\ OddsIdle
    /\ AuxIdle

\* a call of AIDecisionEngine.get_recommendations
AIRecommend ==
    /\ pc = "rec" /\ engine = "ai"
    /\ \E arg \in RecArgs :
          /\ recArg' = arg
          /\ recs' = AIGetRecommendations(decisions, arg, min_confidence)
    /\ pc' = "rec_done"
    /\ UNCHANGED <<configVars, scanVars, decisions>>
    /\ UNCHANGED <<webVars, oddsVars, auxVars>>

\* a call of BudgetDecisionEngine.get_recommendations (it takes no threshold)
BudgetRecommend ==
    /\ pc = "rec" /\ engine = "budget"
    /\ recArg' = NoArg
    /\ recs' = BudgetGetRecommendations(decisions, min_confidence)
    /\ pc' = "rec_done"
    /\ UNCHANGED <<configVars, scanVars, decisions>>
    /\ UNCHANGED <<webVars, oddsVars, auxVars>>

NextRec ==
    \/ AIRecommend
    \/ BudgetRecommend

SpecRec == InitRec /\ [][NextRec]_vars

-----------------------------------------------------------------------------
(* The dashboard service: web/app.py around one shared AIDecisionEngine *)

\* The service runs in its initial configuration: use_research is True,
\* auto_execute is False (so trades_today and daily_pnl stay 0 and the daily
\* limit checks of background_scanner pass).

\* a write of the objects objs by worker w: remembered when w does it without
\* holding cache_lock
Written(w, objs) ==
    [o \in Objects |->
        IF o \in objs /\ w \notin cache_lock
        THEN unlockedWriters[o] \cup {w}
        ELSE unlockedWriters[o]]

\* the key of research_event's cache: f"{home_team}_{away_team}_{sport}",
\* one per event of a sport
cache_key(w) == <<wsport[w], widx[w] + 1>>

\* background_scanner, top of the while loop: nothing happens until the bot
\* runs; then the for loop over enabled_sports begins
ScannerWake ==
    /\ wpc[0] = "wait"
    /\ ~scanner_stop_event
    /\ running
    /\ sidx' = 1
    /\ wpc' = [wpc EXCEPT ![0] = "sport"]
    /\ UNCHANGED <<running, scanner_stop_event, cache_lock, wkind, wsport,
                   widx, wn, research_cache, unlockedWriters>>
    /\ UNCHANGED <<engineVars, oddsVars, auxVars>>

\* background_scanner, one turn of `for sport in enabled_sports`: the stop
\* event is tested, current_sport is set and scan_sport fetches the odds; when
\* the list is exhausted last_scan is set and the thread waits again
ScannerNextSport ==
    /\ wpc[0] = "sport"
    /\ IF sidx <= Len(enabled_sports) /\ ~scanner_stop_event
       THEN \E resp \in ProviderResponses :
               /\ wsport' = [wsport EXCEPT ![0] = enabled_sports[sidx]]
               /\ widx' = [widx EXCEPT ![0] = 0]
               /\ wn' = [wn EXCEPT ![0] = Len(PySliceTo(get_odds(resp), ScannerMaxEvents))]
               /\ wpc' = [wpc EXCEPT ![0] = "call"]
       ELSE /\ wsport' = [wsport EXCEPT ![0] = "none"]
            /\ wpc' = [wpc EXCEPT ![0] = "wait"]
            /\ UNCHANGED <<widx, wn>>
    /\ unlockedWriters' = Written(0, {"bot_state"})
    /\ UNCHANGED <<running, scanner_stop_event, cache_lock, wkind, sidx,
                   research_cache>>
    /\ UNCHANGED <<engineVars, oddsVars, auxVars>>

\* trigger_scan: scan_sport(sport, max_events, include_research) fetches the
\* odds and enters its loop
trigger_scan(w) ==
    /\ wpc[w] = "idle"
    /\ \E sport \in Range(enabled_sports), resp \in ProviderResponses,
          m \in 0..MaxEvents :
          /\ wsport' = [wsport EXCEPT ![w] = sport]
          /\ wn' = [wn EXCEPT ![w] = Len(PySliceTo(get_odds(resp), m))]
    /\ widx' = [widx EXCEPT ![w] = 0]
    /\ wkind' = [wkind EXCEPT ![w] = "scan"]
    /\ wpc' = [wpc EXCEPT ![w] = "call"]
    /\ UNCHANGED <<running, scanner_stop_event, cache_lock, sidx,
                   research_cache, unlockedWriters>>
    /\ UNCHANGED <<engineVars, oddsVars, auxVars>>

\* the /api/analyze handler: the odds are fetched, the event is looked up
\* (404 when it is not there) and handed to decision_engine.analyze_event
analyze_event_handler(w) ==
    /\ wpc[w] = "idle"
    /\ \E sport \in Range(enabled_sports), resp \in ProviderResponses,
          event_id \in 1..MaxEvents :
          IF event_id \in Range(get_odds(resp))
          THEN /\ wsport' = [wsport EXCEPT ![w] = sport]
               /\ widx' = [widx EXCEPT ![w] = event_id - 1]
               /\ wn' = [wn EXCEPT ![w] = event_id]
               /\ wkind' = [wkind EXCEPT ![w] = "analyze"]
               /\ wpc' = [wpc EXCEPT ![w] = "call"]
          ELSE UNCHANGED <<wsport, widx, wn, wkind, wpc>>
    /\ UNCHANGED <<running, scanner_stop_event, cache_lock, sidx,
                   research_cache, unlockedWriters>>
    /\ UNCHANGED <<engineVars, oddsVars, auxVars>>

\* start_bot: refuses when the bot runs; else sets running and clears errors
\* (the scanner thread is alive, so none is started)
start_bot(w) ==
    /\ wpc[w] = "idle"
    /\ IF running
       THEN UNCHANGED <<running, unlockedWriters>>
       ELSE /\ running' = TRUE
            /\ unlockedWriters' = Written(w, {"bot_state"})
    /\ UNCHANGED <<scanner_stop_event, cache_lock, wpc, wkind, wsport, widx,
                   wn, sidx, research_cache>>
    /\ UNCHANGED <<engineVars, oddsVars, auxVars>>

\* stop_bot: clears running and current_sport, nothing else
stop_bot(w) ==
    /\ wpc[w] = "idle"
    /\ running' = FALSE
    /\ unlockedWriters' = Written(w, {"bot_state"})
    /\ UNCHANGED <<scanner_stop_event, cache_lock, wpc, wkind, wsport, widx,
                   wn, sidx, research_cache>>
    /\ UNCHANGED <<engineVars, oddsVars, auxVars>>

\* AIDecisionEngine.analyze_event begins for the next event of a worker:
\* with research, research_event looks the key up in _research_cache and
\* returns the cached entry when it is there and younger than the TTL
AnalysisBegin(w) ==
    /\ wpc[w] = "call"
    /\ widx[w] < wn[w]
    /\ \E with_research \in (IF IsScanner(w) THEN {TRUE} ELSE BOOLEAN),
          fresh \in BOOLEAN :
          wpc' = [wpc EXCEPT ![w] =
                     IF with_research /\ ~(cache_key(w) \in research_cache /\ fresh)
                     THEN "researching" ELSE "deciding"]
    /\ UNCHANGED <<running, scanner_stop_event, cache_lock, wkind, wsport,
                   widx, wn, sidx, research_cache, unlockedWriters>>
    /\ UNCHANGED <<engineVars, oddsVars, auxVars>>

\* research_event after its Perplexity calls:
\* self._research_cache[cache_key] = research
ResearchStore(w) ==
    /\ wpc[w] = "researching"
    /\ research_cache' = research_cache \cup {cache_key(w)}
    /\ unlockedWriters' = Written(w, {"_research_cache"})
    /\ wpc' = [wpc EXCEPT ![w] = "deciding"]
    /\ UNCHANGED <<running, scanner_stop_event, cache_lock, wkind, wsport,
                   widx, wn, sidx>>
    /\ UNCHANGED <<engineVars, oddsVars, auxVars>>

\* the rest of analyze_event: the market lookup and the inference call, which
\* may raise; else _log_decision appends to decision_logs and the decision is
\* returned.  In scan_sport a raise continues with the next event and a
\* decision is followed by the sleep; the /api/analyze handler answers 500 on
\* a raise and stores the decision otherwise.
AnalysisEnd(w) ==
    /\ wpc[w] = "deciding"
    /\ \E raised \in BOOLEAN :
          IF raised
          THEN /\ wpc' = [wpc EXCEPT ![w] =
                             IF wkind[w] = "analyze" THEN "idle" ELSE "call"]
               /\ wkind' = [wkind EXCEPT ![w] =
                               IF wkind[w] = "analyze" THEN "none" ELSE @]
               /\ widx' = [widx EXCEPT ![w] = @ + 1]
               /\ UNCHANGED unlockedWriters
          ELSE /\ unlockedWriters' = Written(w, {"decision_logs"})
               /\ wpc' = [wpc EXCEPT ![w] =
                             IF wkind[w] = "analyze" THEN "store" ELSE "sleep"]
               /\ UNCHANGED <<widx, wkind>>
    /\ UNCHANGED <<running, scanner_stop_event, cache_lock, wsport, wn,
                   sidx, research_cache>>
    /\ UNCHANGED <<engineVars, oddsVars, auxVars>>

\* scan_sport: time.sleep(1), then the next event
ScanSleep(w) ==
    /\ wpc[w] = "sleep"
    /\ widx' = [widx EXCEPT ![w] = @ + 1]
    /\ wpc' = [wpc EXCEPT ![w] = "call"]
    /\ UNCHANGED <<running, scanner_stop_event, cache_lock, wkind, wsport, wn,
                   sidx, research_cache, unlockedWriters>>
    /\ UNCHANGED <<engineVars, oddsVars, auxVars>>

\* scan_sport returns; the scanner adds to trading_stats; the caller goes on
\* to store the decisions
ScanDone(w) ==
    /\ wpc[w] = "call"
    /\ wkind[w] \in {"scanner", "scan"}
    /\ widx[w] = wn[w]
    /\ unlockedWriters' =
          IF IsScanner(w) THEN Written(w, {"trading_stats"}) ELSE unlockedWriters
    /\ wpc' = [wpc EXCEPT ![w] = "store"]
    /\ UNCHANGED <<running, scanner_stop_event, cache_lock, wkind, wsport,
                   widx, wn, sidx, research_cache>>
    /\ UNCHANGED <<engineVars, oddsVars, auxVars>>

\* `with cache_lock:` is entered
StoreAcquire(w) ==
    /\ wpc[w] = "store"
    /\ cache_lock = {}
    /\ cache_lock' = {w}
    /\ wpc' = [wpc EXCEPT ![w] = "storing"]
    /\ UNCHANGED <<running, scanner_stop_event, wkind, wsport, widx, wn, sidx,
                   research_cache, unlockedWriters>>
    /\ UNCHANGED <<engineVars, oddsVars, auxVars>>

\* dashboard_cache["decisions"] is appended to and cut to its last 200, the
\* lock is released; a request is answered, the scanner goes on to its
\* time.sleep(2)
StoreRelease(w) ==
    /\ wpc[w] = "storing"
    /\ unlockedWriters' = Written(w, {"dashboard_cache"})
    /\ cache_lock' = cache_lock \ {w}
    /\ wpc' = [wpc EXCEPT ![w] = IF IsScanner(w) THEN "between" ELSE "idle"]
    /\ wkind' = [wkind EXCEPT ![w] = IF IsScanner(w) THEN "scanner" ELSE "none"]
    /\ UNCHANGED <<running, scanner_stop_event, wsport, widx, wn, sidx,
                   research_cache>>
    /\ UNCHANGED <<engineVars, oddsVars, auxVars>>

\* background_scanner: time.sleep(2) between sports, then the next sport
ScannerBetween ==
    /\ wpc[0] = "between"
    /\ sidx' = sidx + 1
    /\ wpc' = [wpc EXCEPT ![0] = "sport"]
    /\ UNCHANGED <<running, scanner_stop_event, cache_lock, wkind, wsport,
                   widx, wn, research_cache, unlockedWriters>>
    /\ UNCHANGED <<engineVars, oddsVars, auxVars>>

\* after create_app(): the AI engine, nothing in progress
InitWeb ==
    /\ engine = "ai"
    /\ min_confidence = 60
    /\ max_events = 0
    /\ include_research = TRUE
    /\ callback = "none"
    /\ pc = "web"
    /\ odds_data = <<>>
    /\ idx = 0
    /\ decisions = <<>>
    /\ analysed = <<>>
    /\ raisedEvents = {}
    /\ cbLog = <<>>
    /\ last = NoLast
    /\ delayed = FALSE
    /\ recArg = NoArg
    /\ recs = <<>>
    /\ WebIdle
    /\ OddsIdle
    /\ AuxIdle

NextWeb ==
    \/ ScannerWake
    \/ ScannerNextSport
    \/ ScannerBetween
    \/ \E w \in Requests : trigger_scan(w)
    \/ \E w \in Requests : analyze_event_handler(w)
    \/ \E w \in Requests : start_bot(w)
    \/ \E w \in Requests : stop_bot(w)
    \/ \E w \in Workers : AnalysisBegin(w)
    \/ \E w \in Workers : ResearchStore(w)
    \/ \E w \in Workers : AnalysisEnd(w)
    \/ \E w \in Workers : ScanSleep(w)
    \/ \E w \in Workers : ScanDone(w)
    \/ \E w \in Workers : StoreAcquire(w)
    \/ \E w \in Workers : StoreRelease(w)

SpecWeb == InitWeb /\ [][NextWeb]_vars

-----------------------------------------------------------------------------
(* summarize_odds, and generate_decision on one event *)

\* largest number of bookmakers quoting an event
MaxBookmakers == 2

\* American prices the bookmakers quote, and the price of a draw
Prices == {-150, -135, 120}
DrawPrice == 250
SpreadPoint == -3

\* an outcome of a market ("point" is there in spreads markets only)
Outcome(name, price) == [name |-> name, price |-> price]
SpreadOutcome(name, price) == [name |-> name, price |-> price, point |-> SpreadPoint]

\* a list of at most one element
Opt(present, x) == IF present THEN <<x>> ELSE <<>>

\* the bookmakers of the provider, one market each: h2h quoting either team,
\* both or none (0 stands for no quote); h2h quoting a draw next to equal
\* quotes; spreads quoting both teams at one price
Bookmakers ==
    {[key |-> "book",
      markets |-> <<[key |-> "h2h",
                     outcomes |-> Opt(h # 0, Outcome("Home", h))
                                  \o Opt(a # 0, Outcome("Away", a))]>>] :
        h \in Prices \cup {0}, a \in Prices \cup {0}}
    \cup
    {[key |-> "book",
      markets |-> <<[key |-> "h2h",
                     outcomes |-> Opt(h # 0, Outcome("Home", h))
                                  \o <<Outcome("Draw", DrawPrice)>>
                                  \o Opt(h # 0, Outcome("Away", h))]>>] :
        h \in Prices \cup {0}}
    \cup
    {[key |-> "book",
      markets |-> <<[key |-> "spreads",
                     outcomes |-> <<SpreadOutcome("Home", h),
                                    SpreadOutcome("Away", h)>>]>>] :
        h \in Prices}

\* a bookmaker with one h2h market quoting the outcomes given
H2hBook(outcomes) ==
    [key |-> "book", markets |-> <<[key |-> "h2h", outcomes |-> outcomes]>>]

\* one bookmaker quoting home -150, away +130
SingleBookmakerEvent ==
    [home_team |-> "Home", away_team |-> "Away",
     bookmakers |-> <<H2hBook(<<Outcome("Home", -150), Outcome("Away", 130)>>)>>]

\* two bookmakers quoting the home team at +400 and at +1900
LongshotEvent ==
    [home_team |-> "Home", away_team |-> "Away",
     bookmakers |-> <<H2hBook(<<Outcome("Home", 400)>>),
                      H2hBook(<<Outcome("Home", 1900)>>)>>]

\* the events handed to summarize_odds
EventOdds ==
    {[home_team |-> "Home", away_team |-> "Away", bookmakers |-> bs] :
        bs \in SeqsUpTo(Bookmakers, MaxBookmakers)}
    \cup {SingleBookmakerEvent, LongshotEvent}

RECURSIVE ConcatAll(_)
\* the lists of a list, one after the other
ConcatAll(lists) ==
    IF lists = <<>> THEN <<>> ELSE Head(lists) \o ConcatAll(Tail(lists))

RECURSIVE Sum(_)
\* sum(lst)
Sum(lst) == IF lst = <<>> THEN 0 ELSE Head(lst) + Sum(Tail(lst))

\* the outcomes the three nested loops visit in the markets with this key,
\* in the order they visit them
OutcomesOf(event, market_key) ==
    LET InMarket(m) == IF m.key = market_key THEN m.outcomes ELSE <<>>
        InBook(b) == ConcatAll([i \in DOMAIN b.markets |-> InMarket(b.markets[i])])
    IN  ConcatAll([i \in DOMAIN event.bookmakers |-> InBook(event.bookmakers[i])])

\* summary["moneyline"][side] (market_key "h2h") or the odds of
\* summary["spread"][side] (market_key "spreads"): the prices of the outcomes
\* named as the team; away is the elif of home
SidePrices(event, market_key, side) ==
    LET Mine(o) == IF side = "home" THEN o.name = event.home_team
                   ELSE o.name # event.home_team /\ o.name = event.away_team
        mine == SelectSeq(OutcomesOf(event, market_key), Mine)
    IN  [i \in DOMAIN mine |-> Get(mine[i], "price", 0)]

\* summary["spread"][side][0]["line"], 0 when the list is empty
SideLine(event, side) ==
    LET Mine(o) == IF side = "home" THEN o.name = event.home_team
                   ELSE o.name # event.home_team /\ o.name = event.away_team
        mine == SelectSeq(OutcomesOf(event, "spreads"), Mine)
    IN  IF mine = <<>> THEN 0 ELSE Get(mine[1], "point", "None")

\* mutant: floor division in place of int(), which rounds toward zero
PyIntFloor(n, d) == n \div d

\* int(n / d) for d > 0: the quotient truncated toward zero
PyInt(n, d) == IF n >= 0 THEN n \div d ELSE -((-n) \div d)

\* int(avg(lst)) with avg(lst) = sum(lst) / len(lst) if lst else 0
IntAvg(lst) == IF lst = <<>> THEN 0 ELSE PyInt(Sum(lst), Len(lst))

\* mutant: the price of greatest magnitude
bestByMagnitude(lst) ==
    IF lst = <<>> THEN 0
    ELSE CHOOSE x \in Range(lst) :
            \A y \in Range(lst) :
                (IF x < 0 THEN -x ELSE x) >= (IF y < 0 THEN -y ELSE y)

\* mutant: the least price
worst(lst) ==
    IF lst = <<>> THEN 0
    ELSE CHOOSE x \in Range(lst) : \A y \in Range(lst) : x <= y

\* best(lst) = max(lst) if lst else 0
best(lst) ==
    IF lst = <<>> THEN 0
    ELSE CHOOSE x \in Range(lst) : \A y \in Range(lst) : x >= y

\* BudgetDecisionEngine.summarize_odds (the events carry no totals market)
summarize_odds(event) ==
    [called    |-> TRUE,
     home_team |-> event.home_team,
     away_team |-> event.away_team,
     moneyline |->
        [home_consensus |-> IntAvg(SidePrices(event, "h2h", "home")),
         away_consensus |-> IntAvg(SidePrices(event, "h2h", "away")),
         home_best      |-> best(SidePrices(event, "h2h", "home")),
         away_best      |-> best(SidePrices(event, "h2h", "away"))],
     spread |->
        [home_line |-> SideLine(event, "home"),
         away_line |-> SideLine(event, "away"),
         home_odds |-> IntAvg(SidePrices(event, "spreads", "home")),
         away_odds |-> IntAvg(SidePrices(event, "spreads", "away"))],
     total |-> [line |-> 0, over_odds |-> 0, under_odds |-> 0],
     bookmaker_count |-> Len(event.bookmakers)]

\* an event arrives from the odds provider
InitOdds ==
    /\ engine = "budget"
    /\ min_confidence = 60
    /\ max_events = 0
    /\ include_research \in BOOLEAN
    /\ callback = "none"
    /\ pc = "odds"
    /\ odds_data = <<>>
    /\ idx = 0
    /\ decisions = <<>>
    /\ analysed = <<>>
    /\ raisedEvents = {}
    /\ cbLog = <<>>
    /\ last = NoLast
    /\ delayed = FALSE
    /\ recArg = NoArg
    /\ recs = <<>>
    /\ WebIdle
    /\ event_odds \in EventOdds
    /\ odds_summary = NoSummary
    /\ implied = NoImplied
    /\ AuxIdle

\* a call of summarize_odds(event_odds)
SummarizeOdds ==
    /\ pc = "odds"
    /\ odds_summary' = summarize_odds(event_odds)
    /\ pc' = "summarized"
    /\ UNCHANGED <<configVars, scanVars, decisions, recArg, recs>>
    /\ UNCHANGED <<webVars, event_odds, implied, auxVars>>

\* a call of generate_decision(event_odds, sport_key, include_research): the
\* odds are summarised, the research fetched, the inference service asked and
\* the BetDecision built, odds_snapshot being the summary
GenerateDecision ==
    /\ pc = "odds"
    /\ odds_summary' = summarize_odds(event_odds)
    /\ \E research \in (IF include_research THEN ResearchOutcomes ELSE {"skipped"}),
          h \in HttpOutcomes :
          LET r == generate_decision(1, research, h) IN
          /\ last' = [event_id |-> 1, research |-> research, kalshi |-> "unused",
                      http |-> h, raised |-> r.raised, exc |-> r.exc]
          /\ decisions' = IF r.raised THEN <<>> ELSE <<r.decision>>
          /\ pc' = IF r.raised THEN "raised" ELSE "decided"
    /\ UNCHANGED <<configVars, odds_data, idx, analysed, raisedEvents, cbLog,
                   delayed, recArg, recs>>
    /\ UNCHANGED <<webVars, event_odds, implied, auxVars>>

NextOdds ==
    \/ SummarizeOdds
    \/ GenerateDecision

SpecOdds == InitOdds /\ [][NextOdds]_vars

-----------------------------------------------------------------------------
(* american_to_implied_prob *)

\* largest magnitude of the American odds converted
MaxOdds == 150

\* abs(x)
Abs(x) == IF x < 0 THEN -x ELSE x

\* the quotient num / den of a true division, kept exact
Quotient(n, d) == [num |-> n, den |-> d]

\* mutant: the negative branch without abs()
american_to_implied_probSigned(odds) ==
    IF odds > 0
    THEN Quotient(100, odds + 100)
    ELSE Quotient(odds, odds + 100)

\* SportsOddsClient.american_to_implied_prob(odds)
american_to_implied_prob(odds) ==
    IF odds > 0
    THEN Quotient(100, odds + 100)
    ELSE Quotient(Abs(odds), Abs(odds) + 100)

\* nothing converted yet
InitProb ==
    /\ engine = "ai"
    /\ min_confidence = 60
    /\ max_events = 0
    /\ include_research = FALSE
    /\ callback = "none"
    /\ pc = "prob"
    /\ odds_data = <<>>
    /\ idx = 0
    /\ decisions = <<>>
    /\ analysed = <<>>
    /\ raisedEvents = {}
    /\ cbLog = <<>>
    /\ last = NoLast
    /\ delayed = FALSE
    /\ recArg = NoArg
    /\ recs = <<>>
    /\ WebIdle
    /\ OddsIdle
    /\ AuxIdle

\* a call of american_to_implied_prob with some American odds
ImpliedProb ==
    /\ pc = "prob"
    /\ \E odds \in -MaxOdds..MaxOdds :
          implied' = [called |-> TRUE, odds |-> odds,
                      prob |-> american_to_implied_prob(odds)]
    /\ UNCHANGED <<engineVars, webVars, event_odds, odds_summary, auxVars>>

NextProb == ImpliedProb

SpecProb == InitProb /\ [][NextProb]_vars

-----------------------------------------------------------------------------
(* The engine at rest, for the specifications that do not run it *)

\* an engine as constructed that has analysed nothing
EngineIdle ==
    /\ engine = "ai"
    /\ min_confidence = 60
    /\ max_events = 0
    /\ include_research = FALSE
    /\ callback = "none"
    /\ odds_data = <<>>
    /\ idx = 0
    /\ decisions = <<>>
    /\ analysed = <<>>
    /\ raisedEvents = {}
    /\ cbLog = <<>>
    /\ last = NoLast
    /\ delayed = FALSE
    /\ recArg = NoArg
    /\ recs = <<>>

-----------------------------------------------------------------------------
(* KalshiClient._make_request *)

\* frames the interpreter allows a call of _make_request to nest before it
\* raises RecursionError
MaxDepth == 4

\* the Retry-After the code assumes when the header is absent
DefaultRetryAfter == 60

\* what session.request(..., timeout=30) can produce: a response with a body,
\* one with an empty text, an error status, a 429 whose Retry-After header is
\* absent, a number of seconds or an HTTP-date, or a RequestException of the
\* transport (status 0; the 30 s timeout included)
KalshiResponses ==
    {[status |-> 200, text |-> "body", retry_after |-> "absent"],
     [status |-> 200, text |-> "", retry_after |-> "absent"],
     [status |-> 500, text |-> "body", retry_after |-> "absent"],
     [status |-> 429, text |-> "", retry_after |-> "absent"],
     [status |-> 429, text |-> "", retry_after |-> "seconds"],
     [status |-> 429, text |-> "", retry_after |-> "date"],
     [status |-> 0, text |-> "", retry_after |-> "absent"]}

\* int(response.headers.get('Retry-After', 60)): the seconds to wait, or a
\* ValueError for a header that is no integer literal
retry_after(r) ==
    CASE r.retry_after = "absent" ->
             [raised |-> FALSE, seconds |-> DefaultRetryAfter]
      [] r.retry_after = "seconds" ->
             [raised |-> FALSE, seconds |-> 1]
      [] OTHER -> [raised |-> TRUE, seconds |-> 0]

\* the outermost call of _make_request, about to send its request
InitKalshi ==
    /\ EngineIdle
    /\ pc = "kalshi"
    /\ WebIdle
    /\ OddsIdle
    /\ kalshi_request = [pc |-> "request", depth |-> 1, responses |-> <<>>,
                         retry_after |-> 0, result |-> "none"]
    /\ min_edge = InitialMinEdge
    /\ BotIdle
    /\ CacheIdle
    /\ LogsIdle

\* one attempt: session.request and what the code does with its outcome, up to
\* the return, the propagating exception, or the start of the sleep before
\* the retry
MakeRequest ==
    /\ pc = "kalshi" /\ kalshi_request.pc = "request"
    /\ \E r \in KalshiResponses :
          LET seen == [kalshi_request EXCEPT !.responses = Append(@, r)] IN
          kalshi_request' =
              CASE r.status = 0 ->
                       [seen EXCEPT !.pc = "returned", !.result = "None"]
                [] r.status = 429 /\ retry_after(r).raised ->
                       [seen EXCEPT !.pc = "raised", !.result = "ValueError"]
                [] r.status = 429 ->
                       [seen EXCEPT !.pc = "sleep",
                                    !.retry_after = retry_after(r).seconds]
                [] r.status >= 400 ->
                       [seen EXCEPT !.pc = "returned", !.result = "None"]
                [] r.text = "" ->
                       [seen EXCEPT !.pc = "returned", !.result = "{}"]
                [] OTHER ->
                       [seen EXCEPT !.pc = "returned", !.result = "json"]
    /\ UNCHANGED <<engineVars, webVars, oddsVars, min_edge, botVars, cacheVars,
                   logVars>>

\* time.sleep(retry_after) ends and the function calls itself: one frame
\* deeper, or RecursionError once the interpreter allows no further frame.
\* RecursionError is no RequestException, so no frame's handler absorbs it.
SleepRetry ==
    /\ pc = "kalshi" /\ kalshi_request.pc = "sleep"
    /\ kalshi_request' =
          IF kalshi_request.depth >= MaxDepth
          THEN [kalshi_request EXCEPT !.pc = "raised",
                                      !.result = "RecursionError"]
          ELSE [kalshi_request EXCEPT !.pc = "request", !.depth = @ + 1]
    /\ UNCHANGED <<engineVars, webVars, oddsVars, min_edge, botVars, cacheVars,
                   logVars>>

NextKalshi == MakeRequest \/ SleepRetry

SpecKalshi == InitKalshi /\ [][NextKalshi]_vars

-----------------------------------------------------------------------------
(* web/app.py: the scanner loop's bookkeeping and the bot's controls *)

\* bot_state["errors"][-50:]
ErrorsKept == 50

\* recommendations[:3]
MaxPerScan == 3

\* trading_stats["daily_pnl"], which nothing changes, and
\* bot_config["max_daily_loss"] as initialised
daily_pnl == 0
max_daily_loss == 100

\* the scanner thread and the Flask request threads that post to the bot's
\* controls
BotThreads == 0..(MaxRequests + 1)
BotRequests == 1..(MaxRequests + 1)

\* values a client posts as max_daily_trades
PostedTrades == {0, 2}

\* the two daily-limit tests at the top of an iteration
DailyTradeLimitReached(trades, limit) == trades >= limit
DailyLossLimitReached == daily_pnl <= -max_daily_loss

\* the auto-execute loop over recommendations[:3]: trades_today after it, for
\* `left` recommendations still to go
RECURSIVE auto_execute_tradesUnchecked(_, _, _)
auto_execute_tradesUnchecked(left, trades, limit) ==
    IF left = 0
    THEN trades
    ELSE auto_execute_tradesUnchecked(left - 1, trades + 1, limit)

RECURSIVE auto_execute_trades(_, _, _)
auto_execute_trades(left, trades, limit) ==
    IF left = 0 \/ trades >= limit
    THEN trades
    ELSE auto_execute_trades(left - 1, trades + 1, limit)

\* start_bot's test before it starts a thread, on the number of live scanner
\* threads: scanner_thread is None or not scanner_thread.is_alive()
StartsThreadAlways(alive) == TRUE

StartsThread(alive) == alive = 0

\* the module as imported: no thread yet, the server not yet running
InitBot ==
    /\ EngineIdle
    /\ pc = "bot"
    /\ running = FALSE
    /\ scanner_stop_event = FALSE
    /\ cache_lock = {}
    /\ wpc = [t \in BotThreads |-> IF IsScanner(t) THEN "unborn" ELSE "idle"]
    /\ wkind = [t \in BotThreads |-> IF IsScanner(t) THEN "scanner" ELSE "none"]
    /\ wsport = [t \in BotThreads |-> "none"]
    /\ widx = [t \in BotThreads |-> 0]
    /\ wn = [t \in BotThreads |-> 0]
    /\ sidx = 0
    /\ research_cache = {}
    /\ unlockedWriters = [o \in Objects |-> {}]
    /\ OddsIdle
    /\ kalshi_request = NoKalshi
    /\ min_edge = InitialMinEdge
    /\ ConfigIdle
    /\ scanner_threads = 0
    /\ CacheIdle
    /\ LogsIdle

\* what no step of this specification changes
BotRest ==
    UNCHANGED <<engineVars, oddsVars, kalshi_request, min_edge, cacheVars,
                logVars, scanner_stop_event, cache_lock, wkind, wsport, widx,
                wn, research_cache, unlockedWriters>>

\* create_app: starts the scanner thread; app.run follows it in both entry
\* points, so requests are served only afterwards
create_app ==
    /\ pc = "bot" /\ wpc[0] = "unborn"
    /\ scanner_threads' = scanner_threads + 1
    /\ wpc' = [wpc EXCEPT ![0] = "wait"]
    /\ UNCHANGED <<running, errors, trades_today, auto_execute, auto_trade,
                   max_daily_trades, sidx>>
    /\ BotRest

\* the scanner wakes with the bot running: reset_daily_stats, then the daily
\* limits.  A limit reached appends an error, sleeps 60 s and `continue`s,
\* which ends the iteration without the truncation of errors; otherwise the
\* loop over the sports begins.
ScannerIteration ==
    /\ pc = "bot" /\ wpc[0] = "wait" /\ running
    /\ \E new_day \in BOOLEAN :
          LET trades == IF new_day THEN 0 ELSE trades_today IN
          /\ trades_today' = trades
          /\ IF DailyTradeLimitReached(trades, max_daily_trades)
                \/ DailyLossLimitReached
             THEN /\ errors <= ErrorsKept
                  /\ errors' = errors + 1
                  /\ UNCHANGED <<wpc, sidx>>
             ELSE /\ wpc' = [wpc EXCEPT ![0] = "sports"]
                  /\ sidx' = 0
                  /\ UNCHANGED errors
    /\ UNCHANGED <<running, auto_execute, auto_trade, max_daily_trades,
                   scanner_threads>>
    /\ BotRest

\* one sport of the loop: scan_sport raises, which appends an error, or it
\* returns decisions of which n are recommendations, and the auto-execute
\* block runs
ScannerSport ==
    /\ pc = "bot" /\ wpc[0] = "sports" /\ sidx < Len(enabled_sports)
    /\ sidx' = sidx + 1
    /\ \/ /\ errors' = errors + 1
          /\ UNCHANGED trades_today
       \/ \E n \in 0..ScannerMaxEvents :
             /\ trades_today' =
                   IF auto_execute /\ auto_trade
                   THEN auto_execute_trades(Min(n, MaxPerScan), trades_today,
                                            max_daily_trades)
                   ELSE trades_today
             /\ UNCHANGED errors
    /\ UNCHANGED <<running, wpc, auto_execute, auto_trade, max_daily_trades,
                   scanner_threads>>
    /\ BotRest

\* the end of an iteration that scanned: errors keeps its last 50 entries and
\* the thread waits for the next scan interval
ScannerTrim ==
    /\ pc = "bot" /\ wpc[0] = "sports" /\ sidx = Len(enabled_sports)
    /\ errors' = Min(errors, ErrorsKept)
    /\ wpc' = [wpc EXCEPT ![0] = "wait"]
    /\ UNCHANGED <<running, trades_today, auto_execute, auto_trade,
                   max_daily_trades, scanner_threads, sidx>>
    /\ BotRest

\* POST /api/bot/start, statement by statement: the test of running ...
start_bot_check(r) ==
    /\ pc = "bot" /\ wpc[0] # "unborn" /\ wpc[r] = "idle"
    /\ wpc' = [wpc EXCEPT ![r] = IF running THEN "idle" ELSE "start_set"]
    /\ UNCHANGED <<running, errors, trades_today, auto_execute, auto_trade,
                   max_daily_trades, scanner_threads, sidx>>
    /\ BotRest

\* ... the two assignments to bot_state ...
start_bot_set(r) ==
    /\ pc = "bot" /\ wpc[r] = "start_set"
    /\ running' = TRUE
    /\ errors' = 0
    /\ wpc' = [wpc EXCEPT ![r] = "start_thread"]
    /\ UNCHANGED <<trades_today, auto_execute, auto_trade, max_daily_trades,
                   scanner_threads, sidx>>
    /\ BotRest

\* ... and the thread it starts unless one is alive
start_bot_thread(r) ==
    /\ pc = "bot" /\ wpc[r] = "start_thread"
    /\ scanner_threads' = IF StartsThread(scanner_threads)
                          THEN scanner_threads + 1
                          ELSE scanner_threads
    /\ wpc' = [wpc EXCEPT ![r] = "idle"]
    /\ UNCHANGED <<running, errors, trades_today, auto_execute, auto_trade,
                   max_daily_trades, sidx>>
    /\ BotRest

\* POST /api/bot/stop: clears running; the scanner thread lives on
bot_stop(r) ==
    /\ pc = "bot" /\ wpc[0] # "unborn" /\ wpc[r] = "idle"
    /\ running' = FALSE
    /\ UNCHANGED <<wpc, errors, trades_today, auto_execute, auto_trade,
                   max_daily_trades, scanner_threads, sidx>>
    /\ BotRest

\* POST /api/bot/config with auto_execute and max_daily_trades: the latter is
\* taken only within 1..100
bot_configuration(r) ==
    /\ pc = "bot" /\ wpc[0] # "unborn" /\ wpc[r] = "idle"
    /\ \E ae \in BOOLEAN, val \in PostedTrades :
          /\ auto_execute' = ae
          /\ max_daily_trades' = IF 1 <= val /\ val <= 100
                                 THEN val ELSE max_daily_trades
    /\ UNCHANGED <<running, wpc, errors, trades_today, auto_trade,
                   scanner_threads, sidx>>
    /\ BotRest

\* POST /api/bot/auto-trade
toggle_auto_trade(r) ==
    /\ pc = "bot" /\ wpc[0] # "unborn" /\ wpc[r] = "idle"
    /\ \E enabled \in BOOLEAN : auto_trade' = enabled
    /\ UNCHANGED <<running, wpc, errors, trades_today, auto_execute,
                   max_daily_trades, scanner_threads, sidx>>
    /\ BotRest

\* GET /api/stats on a new day: reset_daily_stats
get_stats(r) ==
    /\ pc = "bot" /\ wpc[0] # "unborn" /\ wpc[r] = "idle"
    /\ trades_today' = 0
    /\ UNCHANGED <<running, wpc, errors, auto_execute, auto_trade,
                   max_daily_trades, scanner_threads, sidx>>
    /\ BotRest

NextBot ==
    \/ create_app
    \/ ScannerIteration
    \/ ScannerSport
    \/ ScannerTrim
    \/ \E r \in BotRequests : start_bot_check(r)
    \/ \E r \in BotRequests : start_bot_set(r)
    \/ \E r \in BotRequests : start_bot_thread(r)
    \/ \E r \in BotRequests : bot_stop(r)
    \/ \E r \in BotRequests : bot_configuration(r)
    \/ \E r \in BotRequests : toggle_auto_trade(r)
    \/ \E r \in BotRequests : get_stats(r)

SpecBot == InitBot /\ [][NextBot]_vars

-----------------------------------------------------------------------------
(* web/app.py: the scanner's filter of recommendations *)

\* values of bot_config["min_edge"], in hundredths, that bot_configuration
\* accepts or rejects
PostedMinEdge == {-1, 0, 3, 50, 51}

\* bot_configuration's test of a posted min_edge
MinEdgePermitted(val) == 0 <= val /\ val <= 50

\* background_scanner's list comprehension over the decisions of a sport scan
ScannerRecommendations(ds, bot_min_confidence, bot_min_edge) ==
    LET Keep(d) == /\ d.decision = "place_bet"
                   /\ d.confidence >= bot_min_confidence
                   /\ d.expected_value >= bot_min_edge
    IN  SelectSeq(ds, Keep)

\* a sport scan has returned its decisions; bot_config as initialised
InitFilter ==
    /\ engine \in {"ai", "budget"}
    /\ min_confidence \in {0, 60}
    /\ max_events = ScannerMaxEvents
    /\ include_research = TRUE
    /\ callback = "none"
    /\ pc = "scanned"
    /\ odds_data = <<>>
    /\ idx = 0
    /\ decisions \in RecLists
    /\ analysed = <<>>
    /\ raisedEvents = {}
    /\ cbLog = <<>>
    /\ last = NoLast
    /\ delayed = FALSE
    /\ recArg = NoArg
    /\ recs = <<>>
    /\ WebIdle
    /\ OddsIdle
    /\ AuxIdle

\* POST /api/bot/config with min_edge, before the scanner filters: taken only
\* within [0, 0.5]
ConfigureMinEdge ==
    /\ pc = "scanned"
    /\ \E val \in PostedMinEdge :
          min_edge' = IF MinEdgePermitted(val) THEN val ELSE min_edge
    /\ UNCHANGED <<engineVars, webVars, oddsVars, kalshi_request, botVars,
                   cacheVars, logVars>>

\* the scanner filters the decisions into its recommendations
ScannerFilter ==
    /\ pc = "scanned"
    /\ recs' = ScannerRecommendations(decisions, min_confidence, min_edge)
    /\ pc' = "filtered"
    /\ UNCHANGED <<configVars, scanVars, decisions, recArg>>
    /\ UNCHANGED <<webVars, oddsVars, auxVars>>

NextFilter ==
    \/ ConfigureMinEdge
    \/ ScannerFilter

SpecFilter == InitFilter /\ [][NextFilter]_vars

-----------------------------------------------------------------------------
(* web/app.py: the writers of dashboard_cache["decisions"] *)

\* dashboard_cache["decisions"][-200:]
CacheKept == 200

\* mutant: the first 200 entries are kept
CacheTrimmedHead(list) == PySliceTo(list, CacheKept)

\* what the three writers assign back before they release the lock
CacheTrimmed(list) == PySliceFrom(list, -CacheKept)

\* decisions the workers have still to append
CachePending == Sum([i \in 1..(MaxRequests + 1) |-> wn[i - 1]])

\* the server as started, the cache of decisions empty
InitCache ==
    /\ EngineIdle
    /\ pc = "cache"
    /\ WebIdle
    /\ OddsIdle
    /\ AuxIdle

\* a worker at rest comes to its `with cache_lock:` holding k decisions
CacheArrive(w, k) ==
    /\ pc = "cache"
    /\ wpc[w] = (IF IsScanner(w) THEN "wait" ELSE "idle")
    /\ appended + CachePending + k <= CacheKept + 2 * MaxEvents
    /\ wpc' = [wpc EXCEPT ![w] = "to_store"]
    /\ wn' = [wn EXCEPT ![w] = k]
    /\ UNCHANGED <<running, scanner_stop_event, cache_lock, wkind, wsport,
                   widx, sidx, research_cache, unlockedWriters>>
    /\ UNCHANGED <<engineVars, oddsVars, kalshi_request, min_edge, botVars,
                   cacheVars, logVars>>

\* background_scanner: a sport scan has returned its decisions
scanner_store ==
    \E k \in 0..MaxEvents : CacheArrive(0, k)

\* POST /api/bot/scan-now: scan_sport has returned its decisions
scan_now_store(w) ==
    \E k \in 0..MaxEvents : CacheArrive(w, k)

\* POST /api/analyze: analyze_event has returned its decision
analyze_store(w) ==
    CacheArrive(w, 1)

\* `with cache_lock:` is entered once no other thread holds the lock
CacheAcquire(w) ==
    /\ pc = "cache" /\ wpc[w] = "to_store"
    /\ cache_lock = {}
    /\ cache_lock' = {w}
    /\ wpc' = [wpc EXCEPT ![w] = "storing"]
    /\ UNCHANGED <<running, scanner_stop_event, wkind, wsport, widx, wn, sidx,
                   research_cache, unlockedWriters>>
    /\ UNCHANGED <<engineVars, oddsVars, auxVars>>

\* dashboard_cache["decisions"].append(...) for the next decision
CacheAppend(w) ==
    /\ pc = "cache" /\ wpc[w] = "storing" /\ wn[w] > 0
    /\ appended' = appended + 1
    /\ cache_decisions' = Append(cache_decisions, appended + 1)
    /\ wn' = [wn EXCEPT ![w] = @ - 1]
    /\ UNCHANGED <<running, scanner_stop_event, cache_lock, wpc, wkind,
                   wsport, widx, sidx, research_cache, unlockedWriters>>
    /\ UNCHANGED <<engineVars, oddsVars, kalshi_request, min_edge, botVars,
                   logVars>>

\* the list is cut to its last 200 entries and the lock released
CacheTrim(w) ==
    /\ pc = "cache" /\ wpc[w] = "storing" /\ wn[w] = 0
    /\ cache_decisions' = CacheTrimmed(cache_decisions)
    /\ cache_lock' = {}
    /\ wpc' = [wpc EXCEPT ![w] = IF IsScanner(w) THEN "wait" ELSE "idle"]
    /\ UNCHANGED <<running, scanner_stop_event, wkind, wsport, widx, wn, sidx,
                   research_cache, unlockedWriters>>
    /\ UNCHANGED <<engineVars, oddsVars, kalshi_request, min_edge, botVars,
                   appended, logVars>>

NextCache ==
    \/ scanner_store
    \/ \E w \in Requests : scan_now_store(w)
    \/ \E w \in Requests : analyze_store(w)
    \/ \E w \in Workers : CacheAcquire(w)
    \/ \E w \in Workers : CacheAppend(w)
    \/ \E w \in Workers : CacheTrim(w)

SpecCache == InitCache /\ [][NextCache]_vars

-----------------------------------------------------------------------------
(* The engines' decision logs *)

\* entries an engine's decision_logs is let to hold
MaxLogs == 4

\* DecisionLog.to_dict: the fields of the log as a dict
to_dict(log) == [k \in DOMAIN log |-> log[k]]

\* AIDecisionEngine.get_decision_logs(limit)
AIGetDecisionLogs(logs, limit) ==
    LET kept == PySliceFrom(logs, -limit)
    IN  [i \in DOMAIN kept |-> to_dict(kept[i])]

\* BudgetDecisionEngine.get_decision_logs(limit)
BudgetGetDecisionLogs(logs, limit) == PySliceFrom(logs, -limit)

\* an engine as constructed: nothing logged
InitLogs ==
    /\ engine \in {"ai", "budget"}
    /\ min_confidence = 60
    /\ max_events = 0
    /\ include_research = FALSE
    /\ callback = "none"
    /\ pc = "logs"
    /\ odds_data = <<>>
    /\ idx = 0
    /\ decisions = <<>>
    /\ analysed = <<>>
    /\ raisedEvents = {}
    /\ cbLog = <<>>
    /\ last = NoLast
    /\ delayed = FALSE
    /\ recArg = NoArg
    /\ recs = <<>>
    /\ WebIdle
    /\ OddsIdle
    /\ AuxIdle

\* AIDecisionEngine._log_decision, which analyze_event calls after a decision;
\* nothing of BudgetDecisionEngine appends to its decision_logs
LogDecision ==
    /\ pc = "logs" /\ engine = "ai"
    /\ Len(decision_logs) < MaxLogs
    /\ \E e \in 1..MaxEvents :
          decision_logs' =
              Append(decision_logs,
                     [event_id |-> e, decision_type |-> "bet_decision",
                      timestamp |-> Len(decision_logs) + 1])
    /\ UNCHANGED <<engineVars, webVars, oddsVars, kalshi_request, min_edge,
                   botVars, cacheVars, logs_result>>

\* a call of get_decision_logs(limit) with a limit of zero or more
GetDecisionLogs ==
    /\ pc = "logs"
    /\ \E limit \in 0..(MaxLogs + 1) :
          logs_result' =
              [called |-> TRUE, limit |-> limit, of |-> decision_logs,
               logs |-> IF engine = "ai"
                        THEN AIGetDecisionLogs(decision_logs, limit)
                        ELSE BudgetGetDecisionLogs(decision_logs, limit)]
    /\ UNCHANGED <<engineVars, webVars, oddsVars, kalshi_request, min_edge,
                   botVars, cacheVars, decision_logs>>

NextLogs ==
    \/ LogDecision
    \/ GetDecisionLogs

SpecLogs == InitLogs /\ [][NextLogs]_vars

-----------------------------------------------------------------------------
(* Vocabulary of the claims *)

\* event ids of a list of decisions, in list order
EventIds(ds) == [i \in DOMAIN ds |-> ds[i].event_id]

\* an analysis has run, and `last` describes it
Analysed == last.event_id # 0

\* the most recent analysis returned a decision (it is the last one appended)
Returned == Analysed /\ ~last.raised

\* the threshold the caller of get_recommendations asked for
AskedThreshold == IF recArg.passed THEN recArg.value ELSE min_confidence

\* the inference call of the most recent analysis failed: it raised, or it
\* came back as an {error} object (RequestException, unparseable content)
InferenceRaised == Analysed /\ get_json_response(last.http).raised
InferenceErrorObject ==
    /\ Analysed
    /\ last.http.kind \in {"request_exception", "invalid_json"}
InferenceFailed == InferenceRaised \/ InferenceErrorObject

\* the error message the inference collaborator gave
InferenceErrorMessage ==
    LET r == get_json_response(last.http)
    IN  IF r.raised THEN r.exc ELSE r.value.error

\* the scan has ended, by returning or by an exception leaving scan_sport
Ended == pc \in {"done", "propagated"}

\* where event_odds quotes a moneyline price for the team of this name: the
\* places <<bookmaker, market, outcome>> of the h2h outcomes so named
QuotesOf(team) ==
    {q \in UNION {UNION {{<<b, m, o>> :
                              o \in DOMAIN event_odds.bookmakers[b].markets[m].outcomes} :
                          m \in DOMAIN event_odds.bookmakers[b].markets} :
                  b \in DOMAIN event_odds.bookmakers} :
        /\ event_odds.bookmakers[q[1]].markets[q[2]].key = "h2h"
        /\ event_odds.bookmakers[q[1]].markets[q[2]].outcomes[q[3]].name = team}

PriceAt(q) == event_odds.bookmakers[q[1]].markets[q[2]].outcomes[q[3]].price

RECURSIVE SumOver(_)
SumOver(Q) ==
    IF Q = {} THEN 0
    ELSE LET q == CHOOSE x \in Q : TRUE IN PriceAt(q) + SumOver(Q \ {q})

\* self.min_edge of the engine: MIN_EDGE, 0.03 by default
MinEdge == 3

\* the edge of a moneyline side of odds_summary, as an exact quotient: 0 when
\* consensus or best is 0, else the implied probability of the consensus less
\* that of the best price
Edge(side) ==
    LET consensus == IF side = "home" THEN odds_summary.moneyline.home_consensus
                     ELSE odds_summary.moneyline.away_consensus
        bestPrice == IF side = "home" THEN odds_summary.moneyline.home_best
                     ELSE odds_summary.moneyline.away_best
        pc_ == american_to_implied_prob(consensus)
        pb_ == american_to_implied_prob(bestPrice)
    IN  IF bestPrice = 0 \/ consensus = 0
        THEN Quotient(0, 1)
        ELSE Quotient(pc_.num * pb_.den - pb_.num * pc_.den, pc_.den * pb_.den)

\* the quotient e compared with h hundredths (the denominators are positive)
EdgeIs(e, h) == e.num * 100 = h * e.den
EdgeBelow(e, h) == e.num * 100 < h * e.den

\* the edge of the event: that of the side with the greater edge
EventEdge ==
    IF Edge("away").num * Edge("home").den > Edge("home").num * Edge("away").den
    THEN Edge("away") ELSE Edge("home")

\* c is the mean of the prices quoted at Q, truncated toward zero (0 for none)
IsTruncatedMean(c, Q) ==
    LET n == Cardinality(Q)
        total == SumOver(Q)
    IN  IF n = 0 THEN c = 0
        ELSE IF total >= 0
        THEN c >= 0 /\ c * n <= total /\ total < (c + 1) * n
        ELSE c <= 0 /\ c * n >= total /\ total > (c - 1) * n

\* p is the greatest of the prices quoted at Q (0 for none)
IsGreatest(p, Q) ==
    IF Q = {} THEN p = 0
    ELSE /\ \E q \in Q : PriceAt(q) = p
         /\ \A q \in Q : PriceAt(q) <= p

\* sub is list with some elements left out: the same elements, in list's order
IsSubsequence(sub, list) ==
    \E f \in [DOMAIN sub -> DOMAIN list] :
        /\ \A i, j \in DOMAIN sub : i < j => f[i] < f[j]
        /\ \A i \in DOMAIN sub : sub[i] = list[f[i]]

\* worker w is inside AIDecisionEngine.analyze_event
InAnalysis(w) == wpc[w] \in {"researching", "deciding"}

\* a step in which the background scanner enters analyze_event
ScannerStartsAnalysis == ~InAnalysis(0) /\ InAnalysis(0)'

-----------------------------------------------------------------------------
(* Claims *)

\* C1: AIDecisionEngine.get_recommendations returns exactly the decisions with
\* decision = place_bet, confidence >= the min_confidence the caller passed
\* (any number, 0 included) and expected_value > 0; the engine's configured
\* min_confidence is used only when the caller passes none.
C1_PassedThresholdIsUsed ==
    (pc = "rec_done" /\ engine = "ai") =>
        LET Keep(d) == /\ d.decision = "place_bet"
                       /\ d.confidence >= AskedThreshold
                       /\ d.expected_value > 0
        IN  recs = SelectSeq(decisions, Keep)

\* C2: get_recommendations never returns a decision with expected_value <= 0
\* or with confidence below the min_confidence asked for.
C2_NoWeakRecommendation ==
    pc = "rec_done" =>
        \A i \in DOMAIN recs :
            /\ recs[i].expected_value > 0
            /\ recs[i].confidence >= AskedThreshold

\* C2 witness: a call that returned something and dropped a place_bet decision
\* of sufficient confidence for its non-positive expected value.
C2_Witness ==
    /\ pc = "rec_done"
    /\ recs # <<>>
    /\ \E i \in DOMAIN decisions :
          /\ decisions[i].decision = "place_bet"
          /\ decisions[i].confidence >= AskedThreshold
          /\ decisions[i].expected_value <= 0

\* C3: in scan_sport an event whose analysis raises does not stop the scan:
\* when the scan ends every event of the truncated list has been analysed, and
\* the decisions are exactly those of the events whose analysis did not raise,
\* in provider order (so their number is the events minus the failing ones).
C3_RaisingEventIsSkippedOnly ==
    /\ LET NotRaised(e) == e \notin raisedEvents
       IN  EventIds(decisions) = SelectSeq(analysed, NotRaised)
    /\ Ended =>
          /\ analysed = PySliceTo(odds_data, max_events)
          /\ Len(decisions) = Len(analysed) - Cardinality(raisedEvents)

\* C3 witness: a finished scan in which an event raised and a later event
\* was analysed and has its decision in the result.
C3_Witness ==
    /\ pc = "done"
    /\ \E e \in raisedEvents :
          \E i \in DOMAIN decisions : decisions[i].event_id > e

\* C4: when a collaborator call of an event's analysis by AIDecisionEngine
\* fails (it raised, or the client mapped the failure to an {error} object),
\* the scan result holds a decision for that event with decision = skip and
\* the failure message as reasoning.
C4_FailureBecomesSkipWithMessage ==
    (engine = "ai" /\ Analysed /\ (last.raised \/ InferenceErrorObject)) =>
        \E i \in DOMAIN decisions :
            /\ decisions[i].event_id = last.event_id
            /\ decisions[i].decision = "skip"
            /\ decisions[i].reasoning =
                  (IF last.raised THEN last.exc ELSE InferenceErrorMessage)

\* C5: whatever way the inference call fails (exception, timeout, non-2xx,
\* unparseable content), the analysis raises nothing and returns a skip.
C5_InferenceFailureYieldsSkip ==
    InferenceFailed =>
        /\ ~last.raised
        /\ Last(decisions).event_id = last.event_id
        /\ Last(decisions).decision = "skip"

\* C6: when the inference call fails, the reasoning of the skip decision
\* returned in its place is the collaborator's error message.
C6_FallbackReasoningIsErrorMessage ==
    (InferenceFailed /\ Returned) =>
        Last(decisions).reasoning = InferenceErrorMessage

\* C7: every decision returned has decision in {place_bet, skip},
\* 0 <= confidence <= 1 and 0 <= win_probability <= 1.
C7_DecisionFieldsInRange ==
    \A i \in DOMAIN decisions :
        /\ decisions[i].decision \in {"place_bet", "skip"}
        /\ decisions[i].confidence >= 0 /\ decisions[i].confidence <= 100
        /\ decisions[i].win_probability >= 0
        /\ decisions[i].win_probability <= 100

\* C8: a JSON object lacking a required key of the response schema is handled
\* like a collaborator failure: nothing is raised and the decision is skip.
C8_MissingKeyYieldsSkip ==
    (Analysed /\ last.http.kind = "json_object"
              /\ ~(RequiredKeys \subseteq DOMAIN last.http.body)) =>
        /\ ~last.raised
        /\ Last(decisions).event_id = last.event_id
        /\ Last(decisions).decision = "skip"

\* C9: for max_events >= 0 scan_sport analyses exactly the first
\* min(n, max_events) of the provider's n events, each once and in provider
\* order, so it returns at most max_events decisions; an empty events list
\* gives an empty result, no analysis and no callback call.
C9_FirstEventsOnlyOnceInOrder ==
    max_events >= 0 =>
        /\ Len(analysed) <= Min(Len(odds_data), max_events)
        /\ \A i \in DOMAIN analysed : analysed[i] = odds_data[i]
        /\ Len(decisions) <= max_events
        /\ pc = "done" => Len(analysed) = Min(Len(odds_data), max_events)
        /\ (pc = "done" /\ odds_data = <<>>) =>
              (decisions = <<>> /\ analysed = <<>> /\ cbLog = <<>>)

\* C9 witness: a finished scan of a provider list longer than max_events that
\* analysed max_events >= 1 events.
C9_Witness ==
    /\ pc = "done"
    /\ max_events >= 1
    /\ Len(odds_data) > max_events
    /\ Len(analysed) = max_events

\* C10: in BudgetDecisionEngine.scan_sport a raising callback never lets an
\* exception leave scan_sport; the decision it was called with stays in the
\* list, and when the scan ends every event has been analysed and every
\* decision has been delivered to the callback.
C10_RaisingCallbackIsIsolated ==
    (engine = "budget" /\ callback = "present") =>
        /\ pc # "propagated"
        /\ \A k \in DOMAIN cbLog :
              \E i \in DOMAIN decisions : decisions[i].event_id = cbLog[k].event_id
        /\ Ended =>
              /\ analysed = PySliceTo(odds_data, max_events)
              /\ EventIds(cbLog) = EventIds(decisions)

\* C10 witness: a finished scan in which the callback raised for one decision
\* and was called again for a later one.
C10_Witness ==
    /\ pc = "done"
    /\ \E k \in DOMAIN cbLog :
          /\ cbLog[k].raised
          /\ k < Len(cbLog)
          /\ \E i \in DOMAIN decisions : decisions[i].event_id = cbLog[k].event_id

\* C11: with a callback, BudgetDecisionEngine.scan_sport calls it exactly once
\* per decision of the returned list, in the list's order; the call for an
\* event has finished before the analysis of the next event starts (and before
\* the scan returns); it is never called for an event whose analysis raised.
C11_CallbackOncePerDecisionInOrder ==
    (engine = "budget" /\ callback = "present") =>
        /\ Len(cbLog) <= Len(decisions)
        /\ \A i \in DOMAIN cbLog : cbLog[i].event_id = decisions[i].event_id
        /\ \A i \in DOMAIN cbLog : cbLog[i].event_id \notin raisedEvents
        /\ pc \in {"loop", "done"} => Len(cbLog) = Len(decisions)

\* C11 witness: a finished scan with a callback that returned decisions for
\* the two events, the callback called for each in that order.
C11_Witness ==
    /\ pc = "done" /\ engine = "budget" /\ callback = "present"
    /\ Len(decisions) = MaxEvents
    /\ EventIds(cbLog) = EventIds(decisions)

\* C12: the rate-limit delay elapses between every two consecutive event
\* analyses of scan_sport, whether the earlier analysis returned a decision
\* or raised: when the analysis of a further event is about to start,
\* time.sleep has run since the previous analysis.
C12_DelayBetweenAnalyses ==
    (pc = "loop" /\ idx < Len(Truncated) /\ analysed # <<>>) => delayed

\* C13: in the dashboard service no two event analyses for the same sport are
\* in progress at once on the shared decision engine, whatever the
\* interleaving of the scanner thread with the scan-now and analyze handlers.
C13_NoOverlappingAnalysesOfASport ==
    \A w1, w2 \in Workers :
        (w1 # w2 /\ InAnalysis(w1) /\ InAnalysis(w2)) => wsport[w1] # wsport[w2]

\* C14: the only shared state written by more than one worker is the decision
\* cache, and it is written under cache_lock only: no shared object is written
\* by two workers without the lock, and no two workers are at once inside
\* research_event on their way to write the same cache entry.
C14_SharedWritesUnderCacheLock ==
    /\ \A o \in Objects : Cardinality(unlockedWriters[o]) <= 1
    /\ \A w1, w2 \in Workers :
          (w1 # w2 /\ wpc[w1] = "researching" /\ wpc[w2] = "researching")
              => cache_key(w1) # cache_key(w2)

\* C15: once the bot is stopped, the background scanner starts no further
\* event analysis until the bot is started again: every analysis the scanner
\* starts, it starts while bot_state["running"] is true.
C15_NoAnalysisStartedAfterStop ==
    [][ScannerStartsAnalysis => running]_vars

\* C16: for an event without bookmakers (bookmaker_count = 0 in its odds
\* summary) the decision generate_decision returns is "skip".
C16_NoBookmakersYieldsSkip ==
    (pc = "decided" /\ odds_summary.bookmaker_count = 0)
        => decisions[1].decision = "skip"

\* C17: get_recommendations is a pure filter: a call leaves the input list and
\* every field of every decision in it as they were, and what it returns is a
\* sub-sequence of the input, the same decisions in the same order.
C17_RecommendationsArePureFilter ==
    [][(pc = "rec" /\ pc' = "rec_done")
          => (decisions' = decisions /\ IsSubsequence(recs', decisions))]_vars

\* C17 witness: a call that returned both decisions of a two-element list.
C17_Witness ==
    /\ pc = "rec_done"
    /\ Len(decisions) = MaxDecisions
    /\ recs = decisions

\* C18: the consensus summarize_odds reports for a moneyline side is the
\* arithmetic mean of all the prices gathered for that side, truncated toward
\* zero to an integer, and 0 when no price was gathered.
C18_ConsensusIsTruncatedMean ==
    odds_summary.called =>
        /\ IsTruncatedMean(odds_summary.moneyline.home_consensus,
                           QuotesOf(event_odds.home_team))
        /\ IsTruncatedMean(odds_summary.moneyline.away_consensus,
                           QuotesOf(event_odds.away_team))

\* C18 witness: a summary of two home prices whose mean is negative and not
\* an integer, so that truncation and flooring differ.
C18_Witness ==
    /\ pc = "summarized"
    /\ Cardinality(QuotesOf(event_odds.home_team)) = 2
    /\ SumOver(QuotesOf(event_odds.home_team)) < 0
    /\ SumOver(QuotesOf(event_odds.home_team)) % 2 = 1

\* C19: the best price summarize_odds reports for a moneyline side is the
\* numerically greatest signed price among the h2h outcomes named as that
\* team, 0 when there is none; an outcome named as neither team is never in.
C19_BestIsGreatestOfTheTeam ==
    odds_summary.called =>
        /\ IsGreatest(odds_summary.moneyline.home_best,
                      QuotesOf(event_odds.home_team))
        /\ IsGreatest(odds_summary.moneyline.away_best,
                      QuotesOf(event_odds.away_team))

\* C19 witness: a summary of an event with a draw quoted above every team
\* price, and home prices of both signs.
C19_Witness ==
    /\ pc = "summarized"
    /\ QuotesOf("Draw") # {}
    /\ \E q1, q2 \in QuotesOf(event_odds.home_team) :
          PriceAt(q1) < 0 /\ PriceAt(q2) > 0
    /\ odds_summary.moneyline.home_best < DrawPrice

\* C20: american_to_implied_prob(o) is 100/(o+100) for o > 0, -o/(-o+100) for
\* o < 0 and 0 for o = 0; it lies in [0, 1], and it is 0.5 for o = 100 and for
\* o = -100.
C20_ImpliedProbability ==
    implied.called =>
        LET o == implied.odds
            p == implied.prob
        IN  /\ p.den > 0
            /\ o > 0 => p.num * (o + 100) = 100 * p.den
            /\ o < 0 => p.num * (-o + 100) = (-o) * p.den
            /\ o = 0 => p.num = 0
            /\ 0 <= p.num /\ p.num <= p.den
            /\ o \in {100, -100} => 2 * p.num = p.den

\* C20 witness: the conversion of -100, which is one half.
C20_Witness ==
    /\ implied.called
    /\ implied.odds = -100
    /\ 2 * implied.prob.num = implied.prob.den

\* C21: with min_edge = 0.03 an event whose edge is exactly min_edge yields
\* the decision "place_bet", and an event whose edge is below min_edge yields
\* "skip".
C21_EdgeThresholdDecides ==
    pc = "decided" =>
        /\ EdgeIs(EventEdge, MinEdge) => decisions[1].decision = "place_bet"
        /\ EdgeBelow(EventEdge, MinEdge) => decisions[1].decision = "skip"

\* C22: for the event with one bookmaker quoting home -150 and away +130 and
\* min_edge = 0.03, consensus equals best on each side, the edge of each side
\* is 0 and the decision is "skip".
C22_SingleBookmakerYieldsSkip ==
    (pc = "decided" /\ event_odds = SingleBookmakerEvent) =>
        /\ odds_summary.moneyline.home_consensus = odds_summary.moneyline.home_best
        /\ odds_summary.moneyline.away_consensus = odds_summary.moneyline.away_best
        /\ EdgeIs(Edge("home"), 0) /\ EdgeIs(Edge("away"), 0)
        /\ decisions[1].decision = "skip"

\* C30: for each moneyline side the consensus of summarize_odds never exceeds
\* the best price, lists of negative prices and of both signs included.
C30_ConsensusAtMostBest ==
    odds_summary.called =>
        /\ odds_summary.moneyline.home_consensus <= odds_summary.moneyline.home_best
        /\ odds_summary.moneyline.away_consensus <= odds_summary.moneyline.away_best

\* C30 witness: a summary of two different negative home prices and of away
\* prices of both signs, the consensus strictly between them.
C30_Witness ==
    /\ pc = "summarized"
    /\ \E q1, q2 \in QuotesOf(event_odds.home_team) :
          PriceAt(q1) < PriceAt(q2) /\ PriceAt(q2) < 0
    /\ \E q1, q2 \in QuotesOf(event_odds.away_team) :
          PriceAt(q1) < 0 /\ PriceAt(q2) > 0
    /\ odds_summary.moneyline.home_consensus < odds_summary.moneyline.home_best

\* every response the call has seen so far was a 429 whose Retry-After is
\* absent or a number of seconds
Only429(req) ==
    \A i \in DOMAIN req.responses :
        /\ req.responses[i].status = 429
        /\ req.responses[i].retry_after # "date"

\* C23: a call of KalshiClient._make_request ends by returning (a body, {} or
\* None), never by an exception, whatever the server answers -- in particular
\* when the server answers 429 to every attempt.
C23_MakeRequestReturns ==
    Only429(kalshi_request) => kalshi_request.pc # "raised"

\* C24: whenever the scanner has finished an iteration of its loop -- scanned,
\* failed, or stopped by a daily limit -- bot_state["errors"] holds at most 50
\* entries.
C24_ErrorsBounded ==
    (pc = "bot" /\ wpc[0] = "wait") => errors <= ErrorsKept

C26_ScannerCountsOnlyActionable ==
    pc = "filtered" =>
        \A i \in DOMAIN recs : Actionable(recs[i], min_confidence)

\* C28: whenever no write of dashboard_cache["decisions"] is in progress, the
\* list holds at most 200 entries and they are the most recently appended
\* ones, in the order they were appended.
C28_CacheKeepsLast200 ==
    (pc = "cache" /\ cache_lock = {}) =>
        /\ Len(cache_decisions) = Min(appended, CacheKept)
        /\ \A i \in DOMAIN cache_decisions :
              cache_decisions[i] = appended - Len(cache_decisions) + i

C28_Witness ==
    /\ pc = "cache" /\ cache_lock = {}
    /\ appended > CacheKept
    /\ Len(cache_decisions) = CacheKept
    /\ \E w \in Workers : wpc[w] = "to_store"

\* C29: get_decision_logs(limit), for a limit of zero or more, returns the
\* min(limit, n) most recent of the n logged entries, oldest first, and so
\* never more than limit entries.
C29_LogsAreLastLimit ==
    logs_result.called =>
        LET n == Len(logs_result.of)
            m == Len(logs_result.logs)
        IN  /\ m = Min(logs_result.limit, n)
            /\ \A i \in 1..m : logs_result.logs[i] = logs_result.of[n - m + i]

====
